---- MODULE Spec2Model ----
(***************************************************************************)
(* A model of the project-management extension of the chat-sample:        *)
(*   - ProjectManagementTreeDataProvider (projectManagementTreeView.ts),   *)
(*     the tree view over <workspaceRoot>/project_management, together     *)
(*     with the part of activate() (extension.ts) that sets it up;         *)
(*   - the project-manager chat handler (registerProjectManagerChat-       *)
(*     Participant) and the webview overview (projectManager.ts).          *)
(*                                                                         *)
(* The filesystem is a map from a small universe of paths to               *)
(* "absent" | "file" | "dir".  A path is the sequence of its segments, so  *)
(* that path.join(dir, item) is Append(dir, item).                         *)
(***************************************************************************)
EXTENDS Integers, Sequences, FiniteSets, TLC

VARIABLES
    fs,                 \* the filesystem: [Paths -> Kinds]
    wsFolders,          \* vscode.workspace.workspaceFolders: undefined, or a list of folder paths
    activated,          \* activate() has run
    provider,           \* the ProjectManagementTreeDataProvider: NoProvider or [workspaceRoot]
    openFolderRequested,\* activate() asked the host to open a folder (no workspace case)
    eventFired,         \* refresh() has fired the tree's change event
    lastOp,             \* the operation that produced the current state
    lastCall            \* the last getChildren call and what it returned

treeVars == <<fs, wsFolders, activated, provider, openFolderRequested, eventFired,
              lastOp, lastCall>>

VARIABLES
    chatPc,         \* where the chat handler is: "idle", "awaitingSend", "streaming", "done", "thrown"
    request,        \* the chat request being handled: [command, prompt]
    stream,         \* what the handler has written to the response stream
    sendLog,        \* the calls of request.model.sendRequest: the messages of each
    served,         \* the fragments the completion service has produced
    cancelled,      \* the host has cancelled the request's token
    raised,         \* the kind of error the completion service raised, or NoError
    chatResult,     \* the command in the metadata the handler returned, or NoResult
    html,           \* panel.webview.html of the panel the overview command opened
    searches,       \* file searches made by the last overview pass
    overviewInput   \* what the last overview pass saw: [git, search]

\* The handler and the overview command read nothing the other writes, nor
\* anything an earlier run of themselves wrote: the model follows one
\* operation at a time, and forgets its output before the next (Forget).

\* The variables of the chat handler and of the overview panel.
chatVars == <<chatPc, request, stream, sendLog, served, cancelled, raised, chatResult,
              html, searches, overviewInput>>

VARIABLES
    extFile,        \* the external file X:/CombinedOutput.txt: NoFile, or its text
    clipboard,      \* the text on the host's clipboard
    calls,          \* the invocations of getFileContent, in order: [pc, content, wrote, cause, settled]
    notifications   \* the messages shown: [kind, text, call], in the order of the show calls

\* The variables of the command that copies the external file's content.
clipVars == <<extFile, clipboard, calls, notifications>>

vars == <<treeVars, chatVars, clipVars>>

----------------------------------------------------------------------------
(* Bounds of the model *)

\* Depth of the modelled tree below the project_management folder.
MaxDepth == 1

----------------------------------------------------------------------------
(* Paths and the filesystem *)

\* The entry names a directory may hold, in the order readdirSync yields them.
NameOrder == <<"a", "b">>

Names == {NameOrder[i] : i \in 1..Len(NameOrder)}

Kinds == {"absent", "file", "dir"}

\* fsPath of the first workspace folder.
WorkspaceRoot == <<"ws">>

\* path.join(dir, item)
PathJoin(dir, item) == Append(dir, item)

\* path.join(this.workspaceRoot, 'project_management')
ProjectManagementPath(root) == PathJoin(root, "project_management")

PM == ProjectManagementPath(WorkspaceRoot)

RECURSIVE Below(_, _)
\* The paths at most d levels below dir.
Below(dir, d) ==
    IF d = 0 THEN {}
    ELSE LET kids == {PathJoin(dir, n) : n \in Names}
         IN  kids \cup UNION {Below(k, d - 1) : k \in kids}

\* The paths a tree item can carry (FileItem.fullPath): strictly below PM.
ElementPaths == Below(PM, MaxDepth)

Paths == {WorkspaceRoot, PM} \cup ElementPaths

IsPrefix(p, q) == Len(p) <= Len(q) /\ SubSeq(q, 1, Len(p)) = p

Parent(p) == SubSeq(p, 1, Len(p) - 1)

\* The kind of entry at p; nothing exists outside the modelled paths.
KindAt(fsys, p) == IF p \in Paths THEN fsys[p] ELSE "absent"

\* fs.existsSync(p)
ExistsSync(fsys, p) == KindAt(fsys, p) # "absent"

\* Whether fs.mkdirSync(p, {recursive: true}) succeeds: the injected outcome
\* (permissions), and no segment of p may be a regular file.
MkdirSyncOk(fsys, p, io) ==
    /\ io.mkdirOk
    /\ \A q \in Paths : IsPrefix(q, p) => fsys[q] # "file"

\* The filesystem after a successful fs.mkdirSync(p, {recursive: true}):
\* p and every missing ancestor of p become directories.
MkdirSync(fsys, p) ==
    [q \in Paths |-> IF IsPrefix(q, p) /\ fsys[q] = "absent" THEN "dir" ELSE fsys[q]]

\* Whether fs.readdirSync(dir) succeeds.
ReaddirSyncOk(fsys, dir, io) == io.readdirOk /\ KindAt(fsys, dir) = "dir"

\* An enumeration that remembers the entries it gave for dir the last time.
ReaddirSyncCached(fsys, dir) ==
    IF lastCall.dir = dir /\ lastCall.existed
    THEN [i \in 1..Len(lastCall.items) |-> lastCall.items[i].label]
    ELSE SelectSeq(NameOrder, LAMBDA n : ExistsSync(fsys, PathJoin(dir, n)))

\* fs.readdirSync(dir): the names of the entries of dir, in enumeration order.
ReaddirSync(fsys, dir) ==
    SelectSeq(NameOrder, LAMBDA n : ExistsSync(fsys, PathJoin(dir, n)))

\* Whether fs.statSync(PathJoin(dir, item)) succeeds (the entry may have gone,
\* or be unreadable, by the time it is stat'ed).
StatSyncOk(dir, item, io) == item \notin io.statFail

\* The outcomes of the I/O calls of one getChildren call: whether mkdirSync
\* and readdirSync are let through, and the entries whose statSync throws
\* (no entry is stat'ed when the enumeration has failed).
IOOutcomes ==
    {o \in [mkdirOk : BOOLEAN, readdirOk : BOOLEAN, statFail : SUBSET Names] :
        ~o.readdirOk => o.statFail = {}}

----------------------------------------------------------------------------
(* FileItem and readDirectory *)

\* FileItem with the collapsible states of files and folders exchanged.
FileItemInverted(label, fullPath, isDirectory) ==
    [label |-> label,
     fullPath |-> fullPath,
     collapsibleState |-> IF isDirectory THEN "None" ELSE "Collapsed"]

\* new FileItem(label, fullPath, collapsibleState)
FileItem(label, fullPath, isDirectory) ==
    [label |-> label,
     fullPath |-> fullPath,
     collapsibleState |-> IF isDirectory THEN "Collapsed" ELSE "None"]

\* The body of items.map(...): one FileItem per enumerated name.
MapItems(fsys, dir, items) ==
    [i \in 1..Len(items) |->
        FileItem(items[i], PathJoin(dir, items[i]),
                 KindAt(fsys, PathJoin(dir, items[i])) = "dir")]

\* Index of the first item whose stat throws, 0 when none does.
FirstStatFailure(dir, items, io) ==
    LET bad == {i \in 1..Len(items) : ~StatSyncOk(dir, items[i], io)}
    IN  IF bad = {} THEN 0 ELSE CHOOSE i \in bad : \A j \in bad : i <= j

\* The try block of readDirectory, without its catch: what it returns or that
\* it threw, and how many filesystem reads it made.
ReadDirectoryTry(fsys, dir, io) ==
    IF ~ReaddirSyncOk(fsys, dir, io)
    THEN [threw |-> TRUE, items |-> <<>>, reads |-> 1]
    ELSE LET items == ReaddirSync(fsys, dir)
             f == FirstStatFailure(dir, items, io)
         IN  IF f # 0
             THEN [threw |-> TRUE, items |-> <<>>, reads |-> 1 + f]
             ELSE [threw |-> FALSE, items |-> MapItems(fsys, dir, items),
                   reads |-> 1 + Len(items)]

\* readDirectory without its catch block: what is thrown inside escapes.
ReadDirectoryNoCatch(fsys, dir, io) ==
    IF ~ExistsSync(fsys, dir)
    THEN [threw |-> FALSE, items |-> <<>>, reads |-> 1, ioError |-> FALSE]
    ELSE LET t == ReadDirectoryTry(fsys, dir, io)
         IN  [threw |-> t.threw,
              items |-> IF t.threw THEN <<>> ELSE t.items,
              reads |-> 1 + t.reads,
              ioError |-> t.threw]

\* readDirectory(dir): [] when dir does not exist, [] when anything throws.
ReadDirectory(fsys, dir, io) ==
    IF ~ExistsSync(fsys, dir)
    THEN [threw |-> FALSE, items |-> <<>>, reads |-> 1, ioError |-> FALSE]
    ELSE LET t == ReadDirectoryTry(fsys, dir, io)
         IN  [threw |-> FALSE,
              items |-> IF t.threw THEN <<>> ELSE t.items,
              reads |-> 1 + t.reads,
              ioError |-> t.threw]

----------------------------------------------------------------------------
(* getChildren *)

\* getChildren() without an element lists the root; an element is given by
\* its fullPath, and the empty path stands for "no element".
NoElement == <<>>

\* What one getChildren call did, as the host sees it: the element, the
\* directory it read, whether that directory existed when the call began,
\* whether the promise rejected, the items it resolved to, whether the call
\* created the folder, whether any I/O call failed, and the number of
\* filesystem reads it made.
CallRecord(element, dir, existed, items, created, ioError, reads) ==
    [element |-> element, dir |-> dir, existed |-> existed, rejected |-> FALSE,
     items |-> items, created |-> created, ioError |-> ioError, reads |-> reads]

\* The root test answering yes for every directory.
IsRootFolderAlways(root, directoryToRead) == TRUE

\* The root test answering no for every directory.
IsRootFolderNever(root, directoryToRead) == FALSE

\* directoryToRead === path.join(this.workspaceRoot, 'project_management')
IsRootFolder(root, directoryToRead) == directoryToRead = ProjectManagementPath(root)

\* getChildren(element) of a provider on workspaceRoot `root`, run on
\* filesystem fsys with I/O outcomes io: the call record and the filesystem
\* it leaves.
GetChildren(root, element, fsys, io) ==
    IF root = <<>>
    THEN [call |-> CallRecord(element, <<>>, FALSE, <<>>, FALSE, FALSE, 0), fs |-> fsys]
    ELSE
    LET directoryToRead ==
            IF element # NoElement THEN element ELSE ProjectManagementPath(root)
    IN  IF ~ExistsSync(fsys, directoryToRead)
        THEN IF IsRootFolder(root, directoryToRead)
             THEN IF MkdirSyncOk(fsys, directoryToRead, io)
                  THEN LET made == MkdirSync(fsys, directoryToRead)
                           r == ReadDirectory(made, directoryToRead, io)
                       IN  [call |-> [CallRecord(element, directoryToRead, FALSE, r.items,
                                                 TRUE, r.ioError, 1 + r.reads)
                                        EXCEPT !.rejected = r.threw],
                            fs |-> made]
                  ELSE [call |-> CallRecord(element, directoryToRead, FALSE, <<>>,
                                            FALSE, TRUE, 1),
                        fs |-> fsys]
             ELSE [call |-> CallRecord(element, directoryToRead, FALSE, <<>>,
                                       FALSE, FALSE, 1),
                   fs |-> fsys]
        ELSE LET r == ReadDirectory(fsys, directoryToRead, io)
             IN  [call |-> [CallRecord(element, directoryToRead, TRUE, r.items,
                                       FALSE, r.ioError, 1 + r.reads)
                              EXCEPT !.rejected = r.threw],
                  fs |-> fsys]

----------------------------------------------------------------------------
(* The tree view: state and actions *)

NoProvider == [workspaceRoot |-> <<>>, live |-> FALSE]

NoCall == CallRecord(NoElement, <<>>, FALSE, <<>>, FALSE, FALSE, 0)

\* vscode.workspace.workspaceFolders is undefined or an array of folders, each
\* given by its fsPath.
WsUndefined == [defined |-> FALSE, list |-> <<>>]

WsFolders(list) == [defined |-> TRUE, list |-> list]

\* The test without its length check.
HasWorkspaceDefined(folders) == folders.defined

\* workspaceFolders && workspaceFolders.length > 0
HasWorkspace(folders) == folders.defined /\ Len(folders.list) > 0

\* chatResult while the handler has returned nothing.
NoResult == "none"

\* raised while the completion service has raised nothing.
NoError == "none"

\* request.command when the request carries no sub-command (undefined).
NoCommand == "undefined"

NoRequest == [command |-> NoCommand, prompt |-> ""]

\* overviewInput before any overview pass.
NoInput == [git |-> [status |-> "absent", repos |-> <<>>],
            search |-> [rejected |-> FALSE, matching |-> <<>>]]

\* No chat request has been handled and no overview opened.
ChatInit ==
    /\ chatPc = "idle"
    /\ request = NoRequest
    /\ stream = <<>>
    /\ sendLog = <<>>
    /\ served = <<>>
    /\ cancelled = FALSE
    /\ raised = NoError
    /\ chatResult = NoResult
    /\ html = <<>>
    /\ searches = 0
    /\ overviewInput = NoInput

\* The external file is not there.
NoFile == "absent"

\* The texts the external file may hold.
Contents == {"text1", "text2"}

\* What is on the clipboard before the command is used.
EarlierClip == "earlier"

\* The command that copies the external file has not been used.
ClipQuiet ==
    /\ clipboard = EarlierClip
    /\ calls = <<>>
    /\ notifications = <<>>

TreeInit ==
    /\ fs = [p \in Paths |-> IF p = WorkspaceRoot THEN "dir" ELSE "absent"]
    /\ wsFolders \in {WsUndefined, WsFolders(<<>>), WsFolders(<<WorkspaceRoot>>)}
    /\ activated = FALSE
    /\ provider = NoProvider
    /\ openFolderRequested = FALSE
    /\ eventFired = FALSE
    /\ lastOp = "init"
    /\ lastCall = NoCall
    /\ ChatInit
    /\ extFile = NoFile
    /\ ClipQuiet

\* activate(): with no workspace folder it asks the host to open one; with
\* one it builds the provider on the first folder and creates the
\* project_management folder when it is missing.
Activate ==
    /\ ~activated
    /\ activated' = TRUE
    /\ lastOp' = "activate"
    /\ IF ~HasWorkspace(wsFolders)
       THEN /\ openFolderRequested' = TRUE
            /\ UNCHANGED <<fs, provider>>
       ELSE /\ provider' = [workspaceRoot |-> wsFolders.list[1], live |-> TRUE]
            /\ \E mkdirOk \in BOOLEAN :
                 LET projectManagementPath == ProjectManagementPath(wsFolders.list[1])
                     io == [mkdirOk |-> mkdirOk, readdirOk |-> TRUE, statFail |-> {}]
                 IN  fs' = IF /\ ~ExistsSync(fs, projectManagementPath)
                              /\ MkdirSyncOk(fs, projectManagementPath, io)
                           THEN MkdirSync(fs, projectManagementPath)
                           ELSE fs
            /\ UNCHANGED openFolderRequested
    /\ UNCHANGED <<wsFolders, eventFired, lastCall>>
    /\ UNCHANGED <<chatVars, clipVars>>

\* The host asks the provider for the children of the root or of an item.  An
\* item may be any path below the folder: the host keeps the items of earlier
\* listings, whatever has happened to their paths since.
GetChildrenCall ==
    /\ provider.live
    /\ \E element \in {NoElement} \cup ElementPaths, io \in IOOutcomes :
         LET c == GetChildren(provider.workspaceRoot, element, fs, io)
         IN  /\ lastCall' = c.call
             /\ fs' = c.fs
    /\ lastOp' = "getChildren"
    /\ UNCHANGED <<wsFolders, activated, provider, openFolderRequested, eventFired>>
    /\ UNCHANGED <<chatVars, clipVars>>

\* refresh(): fires the change event.
Refresh ==
    /\ provider.live
    /\ eventFired' = TRUE
    /\ lastOp' = "refresh"
    /\ UNCHANGED <<fs, wsFolders, activated, provider, openFolderRequested, lastCall>>
    /\ UNCHANGED <<chatVars, clipVars>>

\* Something outside the extension creates an entry in an existing directory.
EnvCreate ==
    /\ \E p \in Paths, k \in {"file", "dir"} :
         /\ fs[p] = "absent"
         /\ p # WorkspaceRoot => fs[Parent(p)] = "dir"
         /\ fs' = [fs EXCEPT ![p] = k]
    /\ lastOp' = "env"
    /\ UNCHANGED <<wsFolders, activated, provider, openFolderRequested, eventFired, lastCall>>
    /\ UNCHANGED <<chatVars, clipVars>>

\* Something outside the extension removes an entry and all below it.
EnvDelete ==
    /\ \E p \in Paths :
         /\ fs[p] # "absent"
         /\ fs' = [q \in Paths |-> IF IsPrefix(p, q) THEN "absent" ELSE fs[q]]
    /\ lastOp' = "env"
    /\ UNCHANGED <<wsFolders, activated, provider, openFolderRequested, eventFired, lastCall>>
    /\ UNCHANGED <<chatVars, clipVars>>

----------------------------------------------------------------------------
(* The overview: what it is rendered from *)

\* One piece of rendered output: a stream.markdown / stream.reference call of
\* the chat handler, or one chunk appended to the webview's html.
Part(tag, arg, n) == [tag |-> tag, arg |-> arg, n |-> n]

\* folder.name of a workspace folder: the last segment of its path.
FolderName(path) == path[Len(path)]

\* What a repository of the git API gives when it is read: a named HEAD, no
\* HEAD name ('Unknown'), or a read of rootUri or of state that throws.
RepoKinds == {"named", "detached", "rootThrows", "stateThrows"}

RECURSIVE SeqsUpTo(_, _)
\* The sequences over S of length at most n.
SeqsUpTo(S, n) ==
    IF n = 0 THEN {<<>>}
    ELSE LET shorter == SeqsUpTo(S, n - 1)
         IN  shorter \cup {Append(q, x) : q \in shorter, x \in S}

\* The states of the version-control integration: the extension is absent,
\* getAPI throws, getAPI gives nothing, or it gives an API with repositories.
GitStates(maxRepos) ==
    {[status |-> st, repos |-> <<>>] : st \in {"absent", "throws", "noApi"}}
        \cup {[status |-> "api", repos |-> r] : r \in SeqsUpTo(RepoKinds, maxRepos)}

\* The files of a small workspace that match '**/*.{json,ts,js,md}' outside
\* node_modules, in the order the search yields them.
FileOrder ==
    <<"package.json", "src/extension.ts", "src/util.ts", "src/main.ts", "src/index.ts",
      "src/types.ts", "src/a/index.ts", "src/b/index.ts", "src/c/index.ts", "README.md">>

\* The most files a search over a large workspace matches.
MaxMatching == 150

\* The matching files of a large workspace: src/<stem>1.ts, src/<stem>2.ts, ...
BulkFiles(stem) == [i \in 1..MaxMatching |-> "src/" \o stem \o ToString(i) \o ".ts"]

\* The stems of the files of the large workspaces: one that carries a hinted
\* substring, one that carries none.
BulkStems == {"index", "util"}

\* file.path.endsWith('package.json')
IsPackageJson(file) == file \in {"package.json"}

\* The files whose path holds 'main', 'extension' or 'index'.
MainFileNames ==
    {"src/extension.ts", "src/main.ts", "src/index.ts", "src/a/index.ts",
     "src/b/index.ts", "src/c/index.ts"}
        \cup {BulkFiles("index")[i] : i \in 1..MaxMatching}

\* The files whose path ends with '.ts'; none is under node_modules.
TsFileNames ==
    MainFileNames \cup {"src/util.ts", "src/types.ts"}
        \cup {BulkFiles("util")[i] : i \in 1..MaxMatching}

\* f.fsPath.includes('main') || f.fsPath.includes('extension') || f.fsPath.includes('index')
IsMainFile(file) == file \in MainFileNames

\* file.path.endsWith('.ts') && !file.path.includes('node_modules')
IsTsFile(file) == file \in TsFileNames

\* file.path.toLowerCase().includes('readme.md')
IsReadme(file) == file \in {"README.md"}

\* The third argument of findFiles: the most results a search returns.
MaxResults == 100

\* The most entries shown in the TypeScript bucket (slice(0, 5)), which is
\* also the count the "more" note compares with.
MaxShown == 5

Min(a, b) == IF a <= b THEN a ELSE b

\* vscode.workspace.findFiles(include, exclude, maxResults) over the matching files.
FindFiles(matching, maxResults) == SubSeq(matching, 1, Min(Len(matching), maxResults))

\* The outcomes of one file search: it rejects, or it yields some of the files
\* of the small workspace, or all the files of a large one.
SearchOutcomes ==
    {[rejected |-> TRUE, matching |-> <<>>]}
        \cup {[rejected |-> FALSE,
               matching |-> SelectSeq(FileOrder, LAMBDA f : f \in S)]
                : S \in SUBSET {FileOrder[i] : i \in 1..Len(FileOrder)}}
        \cup {[rejected |-> FALSE, matching |-> BulkFiles(stem)] : stem \in BulkStems}

\* The entries written for the repositories from position i on, until a read throws.
RECURSIVE RepoPartsChat(_, _)
RepoPartsChat(repos, i) ==
    IF i > Len(repos) THEN <<>>
    ELSE IF repos[i] = "rootThrows" THEN <<>>
    ELSE IF repos[i] = "stateThrows" THEN <<Part("Repository", "", i)>>
    ELSE <<Part("Repository", "", i),
           Part("Current Branch", IF repos[i] = "named" THEN "name" ELSE "Unknown", i)>>
           \o RepoPartsChat(repos, i + 1)

\* The try block that reports the git repositories to the chat stream.
GitSectionChat(git) ==
    IF git.status # "api" \/ Len(git.repos) = 0 THEN <<>>
    ELSE <<Part("h2", "Git Repositories", 0)>> \o RepoPartsChat(git.repos, 1)

\* One bucket of the chat's file list: a link and a reference per file.
FileLinksChat(files) ==
    [i \in 1..(2 * Len(files)) |->
        IF i % 2 = 1 THEN Part("link", files[(i + 1) \div 2], 0)
                     ELSE Part("reference", files[i \div 2], 0)]

\* The TypeScript bucket of the chat's file list.
TsBucketChat(files) ==
    LET tsFiles == SelectSeq(files, IsTsFile)
        mainFiles == SelectSeq(tsFiles, IsMainFile)
    IN  IF Len(tsFiles) > 0
        THEN <<Part("h3", "TypeScript Files", 0)>>
                \o FileLinksChat(SubSeq(mainFiles, 1, Min(Len(mainFiles), MaxShown)))
                \o (IF Len(tsFiles) > MaxShown
                    THEN <<Part("more", "", Len(tsFiles) - MaxShown)>> ELSE <<>>)
        ELSE <<>>

\* The try block that lists the project files in the chat stream.
FilesSectionChat(folders, search) ==
    IF ~HasWorkspace(folders) \/ search.rejected THEN <<>>
    ELSE LET files == FindFiles(search.matching, MaxResults)
             packageJsonFiles == SelectSeq(files, IsPackageJson)
             readmeFiles == SelectSeq(files, IsReadme)
         IN  <<Part("h2", "Project Files", 0), Part("text", "important files", 0)>>
                \o (IF Len(packageJsonFiles) > 0
                    THEN <<Part("h3", "Package Files", 0)>> \o FileLinksChat(packageJsonFiles)
                    ELSE <<>>)
                \o TsBucketChat(files)
                \o (IF Len(readmeFiles) > 0
                    THEN <<Part("h3", "Documentation", 0)>> \o FileLinksChat(readmeFiles)
                    ELSE <<>>)

\* The workspace folders as the chat reports them.
WorkspaceSectionChat(folders) ==
    IF HasWorkspace(folders)
    THEN <<Part("h2", "Workspace Folders", 0)>>
            \o [i \in 1..Len(folders.list) |-> Part("folder", FolderName(folders.list[i]), i)]
    ELSE <<>>

\* The closing suggestions of the chat summary.
NextStepsChat ==
    <<Part("h2", "Next Steps", 0), Part("text", "suggestions", 0)>>
        \o [i \in 1..4 |-> Part("step", "", i)]

\* The handler's 'overview' branch: everything it writes to the stream, and
\* the number of file searches it makes.
ChatOverview(folders, git, search) ==
    [parts |-> <<Part("h1", "Project Management Overview", 0)>>
                  \o WorkspaceSectionChat(folders)
                  \o GitSectionChat(git)
                  \o FilesSectionChat(folders, search)
                  \o NextStepsChat,
     searches |-> IF HasWorkspace(folders) THEN 1 ELSE 0]

\* The <li> chunks appended for the repositories from position i on; a read
\* that throws leaves the loop, and the section's closing chunk is skipped.
RECURSIVE RepoPartsHtml(_, _)
RepoPartsHtml(repos, i) ==
    IF i > Len(repos) THEN <<Part("close", "Git Repositories", 0)>>
    ELSE IF repos[i] \in {"rootThrows", "stateThrows"} THEN <<>>
    ELSE <<Part("Repository", IF repos[i] = "named" THEN "name" ELSE "Unknown", i)>>
           \o RepoPartsHtml(repos, i + 1)

\* The try block that adds the git repositories to the html.
GitSectionHtml(git) ==
    IF git.status # "api" \/ Len(git.repos) = 0 THEN <<>>
    ELSE <<Part("h2", "Git Repositories", 0)>> \o RepoPartsHtml(git.repos, 1)

\* One bucket of the html's file list: a clickable <li> per file.
FileLinksHtml(files) == [i \in 1..Len(files) |-> Part("link", files[i], 0)]

\* The TypeScript bucket of the html's file list.
TsBucketHtml(files) ==
    LET tsFiles == SelectSeq(files, IsTsFile)
        mainFiles == SelectSeq(tsFiles, IsMainFile)
    IN  IF Len(tsFiles) > 0
        THEN <<Part("h3", "TypeScript Files", 0)>>
                \o FileLinksHtml(SubSeq(mainFiles, 1, Min(Len(mainFiles), MaxShown)))
                \o (IF Len(tsFiles) > MaxShown
                    THEN <<Part("more", "", Len(tsFiles) - MaxShown)>> ELSE <<>>)
                \o <<Part("close", "TypeScript Files", 0)>>
        ELSE <<>>

\* The try block that lists the project files in the html.
FilesSectionHtml(folders, search) ==
    IF ~HasWorkspace(folders) \/ search.rejected THEN <<>>
    ELSE LET files == FindFiles(search.matching, MaxResults)
             packageJsonFiles == SelectSeq(files, IsPackageJson)
             readmeFiles == SelectSeq(files, IsReadme)
         IN  <<Part("h2", "Project Files", 0)>>
                \o (IF Len(packageJsonFiles) > 0
                    THEN <<Part("h3", "Package Files", 0)>>
                            \o FileLinksHtml(packageJsonFiles)
                            \o <<Part("close", "Package Files", 0)>>
                    ELSE <<>>)
                \o TsBucketHtml(files)
                \o (IF Len(readmeFiles) > 0
                    THEN <<Part("h3", "Documentation", 0)>>
                            \o FileLinksHtml(readmeFiles)
                            \o <<Part("close", "Documentation", 0)>>
                    ELSE <<>>)
                \o <<Part("close", "Project Files", 0)>>

\* The workspace folders section of the html.
WorkspaceSectionHtml(folders) ==
    IF HasWorkspace(folders)
    THEN <<Part("h2", "Workspace Folders", 0)>>
            \o [i \in 1..Len(folders.list) |-> Part("folder", FolderName(folders.list[i]), i)]
            \o <<Part("close", "Workspace Folders", 0)>>
    ELSE <<>>

\* getProjectOverviewHtml(): the chunks of the html, and the number of file
\* searches made.
GetProjectOverviewHtml(folders, git, search) ==
    [parts |-> <<Part("h1", "Project Management Overview", 0),
                 Part("h2", "Project Tools", 0)>>
                  \o WorkspaceSectionHtml(folders)
                  \o GitSectionHtml(git)
                  \o FilesSectionHtml(folders, search)
                  \o <<Part("h2", "Next Steps", 0), Part("close", "html", 0)>>,
     searches |-> IF HasWorkspace(folders) THEN 1 ELSE 0]

----------------------------------------------------------------------------
(* The chat handler and the overview command: state and actions *)

\* Each of a response's fragments is one of these.
Fragments == {"f1", "f2"}

\* The most fragments one response carries.
MaxFragments == 2

\* The most repositories the git API reports.
MaxRepos == 1

\* The most workspace folders.
MaxFolders == 2

\* request.command: no sub-command, or one of these.
Commands == {NoCommand, "overview", "plan"}

Prompts == {"hello"}

\* The folders a workspace may hold, the first being the one the tree view uses.
AllFolders == <<WorkspaceRoot, <<"lib">>, <<"docs">>, <<"tools">>>>

\* The values of vscode.workspace.workspaceFolders.
WorkspaceStates ==
    {WsUndefined} \cup {WsFolders(SubSeq(AllFolders, 1, n)) : n \in 0..MaxFolders}

\* A first-position write in place of stream.markdown's append.
MarkdownPrepend(str, part) == <<part>> \o str

\* stream.markdown(...) / stream.reference(...): the part is added at the end.
Markdown(str, part) == Append(str, part)

\* The catch treating every error as a LanguageModelError.
IsLanguageModelErrorAlways(kind) == TRUE

\* The dispatch that never recognises the sub-command.
IsOverviewNever(command) == FALSE

\* The kinds of error the completion service raises.
ErrorKinds == {"LanguageModelError", "Error"}

\* err instanceof vscode.LanguageModelError
IsLanguageModelError(kind) == kind = "LanguageModelError"

\* request.command === 'overview'
IsOverview(command) == command = "overview"

\* { metadata: { command: request.command || '' } }
ResultFor(command) == IF command = NoCommand THEN "" ELSE command

\* The messages passed to sendRequest: the system text, then the prompt.
Messages(prompt) == <<"system", prompt>>

Apology == Part("apology", "", 0)

\* The host hands a request to the handler.  With the sub-command 'overview'
\* the handler writes the summary and returns; otherwise it calls the
\* completion service and waits for the response.
HandleRequest ==
    /\ chatPc = "idle"
    /\ html = <<>>
    /\ \E command \in Commands, prompt \in Prompts :
         /\ request' = [command |-> command, prompt |-> prompt]
         /\ served' = <<>>
         /\ cancelled' = FALSE
         /\ raised' = NoError
         /\ IF IsOverview(command)
            THEN \E git \in GitStates(MaxRepos), search \in SearchOutcomes :
                   LET o == ChatOverview(wsFolders, git, search)
                   IN  /\ stream' = o.parts
                       /\ searches' = o.searches
                       /\ overviewInput' = [git |-> git, search |-> search]
                       /\ sendLog' = <<>>
                       /\ chatResult' = ResultFor(command)
                       /\ chatPc' = "done"
            ELSE /\ stream' = <<>>
                 /\ sendLog' = <<Messages(prompt)>>
                 /\ chatResult' = NoResult
                 /\ chatPc' = "awaitingSend"
                 /\ UNCHANGED <<searches, overviewInput>>
    /\ UNCHANGED <<treeVars, clipVars, html>>

\* The catch block around the completion call: a LanguageModelError is answered
\* with the apology and the handler returns; anything else is thrown again.
Catch(kind) ==
    /\ raised' = kind
    /\ IF IsLanguageModelError(kind)
       THEN /\ stream' = Markdown(stream, Apology)
            /\ chatResult' = ResultFor(request.command)
            /\ chatPc' = "done"
       ELSE /\ chatPc' = "thrown"
            /\ UNCHANGED <<stream, chatResult>>

\* sendRequest resolves with a response.
SendRequestResolves ==
    /\ chatPc = "awaitingSend"
    /\ chatPc' = "streaming"
    /\ UNCHANGED <<treeVars, clipVars, request, stream, sendLog, served, cancelled, raised,
                   chatResult, html, searches, overviewInput>>

\* sendRequest rejects.
SendRequestRejects ==
    /\ chatPc = "awaitingSend"
    /\ \E kind \in ErrorKinds : Catch(kind)
    /\ UNCHANGED <<treeVars, clipVars, request, sendLog, served, cancelled, html, searches,
                   overviewInput>>

\* The response yields its next fragment, which the handler writes to the stream.
NextFragment ==
    /\ chatPc = "streaming"
    /\ Len(served) < MaxFragments
    /\ \E fragment \in Fragments :
         /\ served' = Append(served, fragment)
         /\ stream' = Markdown(stream, Part("fragment", fragment, 0))
    /\ UNCHANGED <<treeVars, clipVars, chatPc, request, sendLog, cancelled, raised, chatResult,
                   html, searches, overviewInput>>

\* The response ends, and the handler returns its result.
StreamEnds ==
    /\ chatPc = "streaming"
    /\ chatPc' = "done"
    /\ chatResult' = ResultFor(request.command)
    /\ UNCHANGED <<treeVars, clipVars, request, stream, sendLog, served, cancelled, raised, html,
                   searches, overviewInput>>

\* The response fails part-way.
StreamFails ==
    /\ chatPc = "streaming"
    /\ \E kind \in ErrorKinds : Catch(kind)
    /\ UNCHANGED <<treeVars, clipVars, request, sendLog, served, cancelled, html, searches,
                   overviewInput>>

\* The host cancels the token of the request being handled.
Cancel ==
    /\ chatPc \in {"awaitingSend", "streaming"}
    /\ ~cancelled
    /\ cancelled' = TRUE
    /\ UNCHANGED <<treeVars, clipVars, chatPc, request, stream, sendLog, served, raised,
                   chatResult, html, searches, overviewInput>>

\* The command project-manager.openProjectManager: a new panel whose html is
\* the rendered overview.
OpenProjectManagerOverview ==
    /\ chatPc = "idle"
    /\ html = <<>>
    /\ \E git \in GitStates(MaxRepos), search \in SearchOutcomes :
         LET o == GetProjectOverviewHtml(wsFolders, git, search)
         IN  /\ html' = o.parts
             /\ searches' = o.searches
             /\ overviewInput' = [git |-> git, search |-> search]
    /\ UNCHANGED <<treeVars, clipVars, chatPc, request, stream, sendLog, served, cancelled,
                   raised, chatResult>>

\* The host is done with the response of the handler that has returned or
\* thrown, or the overview panel is closed.
Forget ==
    /\ chatPc \in {"done", "thrown"} \/ html # <<>>
    /\ chatPc' = "idle"
    /\ request' = NoRequest
    /\ stream' = <<>>
    /\ sendLog' = <<>>
    /\ served' = <<>>
    /\ cancelled' = FALSE
    /\ raised' = NoError
    /\ chatResult' = NoResult
    /\ html' = <<>>
    /\ searches' = 0
    /\ overviewInput' = NoInput
    /\ UNCHANGED <<treeVars, clipVars>>

----------------------------------------------------------------------------
(* The command that copies the external file's content to the clipboard *)

\* The most invocations of getFileContent the model follows.
MaxCalls == 2

\* vscode.window.showErrorMessage(text), shown by invocation i.
ErrorMessage(text, i) == [kind |-> "error", text |-> text, call |-> i]

\* vscode.window.showInformationMessage(...), shown by invocation i.
InformationMessage(i) == [kind |-> "info", text |-> "copied to clipboard", call |-> i]

\* An invocation that has just entered getFileContent.
Entered == [pc |-> "running", content |-> "", wrote |-> FALSE, cause |-> "none",
            settled |-> "pending"]

\* The early return of the missing file: one error message, then return.
FileMissing(call, log, i) ==
    [call |-> [call EXCEPT !.pc = "returned", !.cause = "missing", !.settled = "resolved"],
     log |-> Append(log, ErrorMessage("File does not exist", i))]

\* An invocation whose failure leaves the function: no message, and the
\* promise it returned rejects.
CatchBlockMissing(call, log, i, cause) ==
    [call |-> [call EXCEPT !.pc = "returned", !.cause = cause, !.settled = "rejected"],
     log |-> log]

\* The catch block: one error message, and the function returns normally.
CatchBlock(call, log, i, cause) ==
    [call |-> [call EXCEPT !.pc = "returned", !.cause = cause, !.settled = "resolved"],
     log |-> Append(log, ErrorMessage("Error reading file", i))]

\* The command project-manager.getFileContent, or the webview's message
\* 'getFileContent': the function runs up to its await of the clipboard write.
GetFileContentCall ==
    /\ Len(calls) < MaxCalls
    /\ \E readOk \in BOOLEAN :
         LET i == Len(calls) + 1
             r == IF extFile = NoFile THEN FileMissing(Entered, notifications, i)
                  ELSE IF ~readOk THEN CatchBlock(Entered, notifications, i, "readFailed")
                  ELSE [call |-> [Entered EXCEPT !.pc = "awaitingClipboard",
                                                 !.content = extFile],
                        log |-> notifications]
         IN  /\ calls' = Append(calls, r.call)
             /\ notifications' = r.log
    /\ UNCHANGED <<treeVars, chatVars, extFile, clipboard>>

\* The host completes the clipboard write of invocation i.
ClipboardWriteCompletes ==
    /\ \E i \in 1..Len(calls) :
         /\ calls[i].pc = "awaitingClipboard"
         /\ clipboard' = calls[i].content
         /\ calls' = [calls EXCEPT ![i].pc = "resumed", ![i].wrote = TRUE]
    /\ UNCHANGED <<treeVars, chatVars, extFile, notifications>>

\* The clipboard write of invocation i rejects, and its catch block runs.
ClipboardWriteRejects ==
    /\ \E i \in 1..Len(calls) :
         /\ calls[i].pc = "awaitingClipboard"
         /\ LET r == CatchBlock(calls[i], notifications, i, "clipboardFailed")
            IN  /\ calls' = [calls EXCEPT ![i] = r.call]
                /\ notifications' = r.log
    /\ UNCHANGED <<treeVars, chatVars, extFile, clipboard>>

\* Invocation i continues after its await: the success message, then return.
ShowSuccess ==
    /\ \E i \in 1..Len(calls) :
         /\ calls[i].pc = "resumed"
         /\ notifications' = Append(notifications, InformationMessage(i))
         /\ calls' = [calls EXCEPT ![i].pc = "returned", ![i].settled = "resolved"]
    /\ UNCHANGED <<treeVars, chatVars, extFile, clipboard>>

\* Something outside the extension writes, rewrites or removes the external file.
ExtFileChanges ==
    /\ \E f \in ({NoFile} \cup Contents) \ {extFile} : extFile' = f
    /\ UNCHANGED <<treeVars, chatVars, clipboard, calls, notifications>>

ClipNext ==
    \/ GetFileContentCall
    \/ ClipboardWriteCompletes
    \/ ClipboardWriteRejects
    \/ ShowSuccess
    \/ ExtFileChanges

ChatNext ==
    \/ HandleRequest
    \/ SendRequestResolves
    \/ SendRequestRejects
    \/ NextFragment
    \/ StreamEnds
    \/ StreamFails
    \/ Cancel
    \/ OpenProjectManagerOverview
    \/ Forget

TreeQuiet ==
    /\ fs = [p \in Paths |-> IF p = WorkspaceRoot THEN "dir" ELSE "absent"]
    /\ activated = FALSE
    /\ provider = NoProvider
    /\ openFolderRequested = FALSE
    /\ eventFired = FALSE
    /\ lastOp = "init"
    /\ lastCall = NoCall

TreeNext == Activate \/ GetChildrenCall \/ Refresh \/ EnvCreate \/ EnvDelete

\* The tree view in its environment, the chat handler idle.
SpecTree == TreeInit /\ [][TreeNext]_vars

AssistantInit ==
    /\ wsFolders \in WorkspaceStates
    /\ TreeQuiet
    /\ ChatInit
    /\ extFile = NoFile
    /\ ClipQuiet

\* The chat handler and the overview command, the tree view not yet set up.
SpecChat == AssistantInit /\ [][ChatNext]_vars

ClipInit ==
    /\ wsFolders = WsUndefined
    /\ TreeQuiet
    /\ ChatInit
    /\ extFile \in {NoFile} \cup Contents
    /\ ClipQuiet

\* The command that copies the external file, nothing else being used.
SpecClip == ClipInit /\ [][ClipNext]_vars

----------------------------------------------------------------------------
(* Properties of the tree view *)

\* The names of the entries of dir in fsys, and those that are folders.
ChildrenOf(fsys, dir) == {n \in Names : KindAt(fsys, dir \o <<n>>) # "absent"}

FoldersOf(fsys, dir) == {n \in Names : KindAt(fsys, dir \o <<n>>) = "dir"}

FilesOf(fsys, dir) == {n \in Names : KindAt(fsys, dir \o <<n>>) = "file"}

\* The positions of the items with a given collapsible state.
ItemsIn(items, state) == {i \in 1..Len(items) : items[i].collapsibleState = state}

\* The tree items that describe the content of dir in fsys.
ContentOf(fsys, dir) ==
    {[label |-> n, fullPath |-> dir \o <<n>>,
      collapsibleState |-> IF n \in FoldersOf(fsys, dir) THEN "Collapsed" ELSE "None"]
        : n \in ChildrenOf(fsys, dir)}

\* items lists exactly the content of dir, each entry once.
ListsContent(items, fsys, dir) ==
    /\ {items[i] : i \in 1..Len(items)} = ContentOf(fsys, dir)
    /\ Len(items) = Cardinality(ContentOf(fsys, dir))

\* The state is the one a getChildren call has just returned in.
Returned == lastOp = "getChildren"

\* The listing of the last call partitions the entries of its directory.
Partitioned ==
    /\ Len(lastCall.items) = Cardinality(ChildrenOf(fs, lastCall.dir))
    /\ Cardinality(ItemsIn(lastCall.items, "Collapsed"))
         = Cardinality(FoldersOf(fs, lastCall.dir))
    /\ Cardinality(ItemsIn(lastCall.items, "None"))
         = Cardinality(FilesOf(fs, lastCall.dir))

\* C1 as stated: for every existing directory with N children (F files, K
\* folders) the listing has exactly N items, K of them Collapsed and F of them
\* None, also when the stat of a child fails.
C1_PartitionEvenWhenStatFails ==
    (Returned /\ KindAt(fs, lastCall.dir) = "dir") => Partitioned

\* C1 as amended: for every existing directory with N children (F files, K
\* folders) the listing has exactly N items, K Collapsed and F None, when the
\* enumeration and every stat succeed; when the enumeration or the stat of
\* any child fails the listing is empty.
C1_Partition ==
    (Returned /\ KindAt(fs, lastCall.dir) = "dir") =>
        IF lastCall.ioError THEN lastCall.items = <<>> ELSE Partitioned

\* A listing of a directory holding a file and a folder, with no I/O error.
C1_Witness ==
    /\ Returned
    /\ ~lastCall.ioError
    /\ FoldersOf(fs, lastCall.dir) # {}
    /\ FilesOf(fs, lastCall.dir) # {}

\* C2: getChildren for the root when the project_management folder is
\* missing creates the folder before listing it: on return the folder exists
\* and the result is its content, which is empty; when the creation fails the
\* result is the empty sequence.
C2_RootCreatedThenListed ==
    (Returned /\ lastCall.element = NoElement /\ ~lastCall.existed) =>
        /\ lastCall.dir = ProjectManagementPath(provider.workspaceRoot)
        /\ ~lastCall.rejected
        /\ IF lastCall.created
           THEN /\ KindAt(fs, lastCall.dir) = "dir"
                /\ ListsContent(lastCall.items, fs, lastCall.dir)
                /\ lastCall.items = <<>>
           ELSE /\ lastCall.ioError
                /\ lastCall.items = <<>>

\* A root listing that found the folder missing and created it.
C2_Witness ==
    Returned /\ lastCall.element = NoElement /\ ~lastCall.existed /\ lastCall.created

\* C3: getChildren on an element whose path does not exist resolves to the
\* empty sequence, creates nothing and leaves the filesystem as it was.
C3_AbsentElement ==
    [][(/\ lastOp' = "getChildren"
        /\ lastCall'.element # NoElement
        /\ ~ExistsSync(fs, lastCall'.element))
         => (/\ fs' = fs
             /\ lastCall'.items = <<>>
             /\ ~lastCall'.rejected
             /\ ~lastCall'.created)]_vars

\* A call on an element whose path is absent has returned.
C3_Witness ==
    /\ Returned
    /\ lastCall.element # NoElement
    /\ ~lastCall.existed
    /\ ~ExistsSync(fs, lastCall.element)

\* C4 as stated: every getChildren call reads the filesystem and resolves to
\* the content its directory has at the time of the call.
C4_AlwaysContent ==
    Returned => /\ lastCall.reads >= 1
                /\ ListsContent(lastCall.items, fs, lastCall.dir)

\* C4 as amended: every getChildren call reads the filesystem; when no I/O
\* call fails it resolves to the content its directory has at the time of
\* the call, never to an earlier result, and when one fails to the empty
\* sequence; this holds before and after refresh.
C4_NoCaching ==
    Returned => /\ lastCall.reads >= 1
                /\ lastCall.existed => lastCall.reads >= 3
                /\ IF lastCall.ioError
                   THEN lastCall.items = <<>>
                   ELSE ListsContent(lastCall.items, fs, lastCall.dir)

\* A call after a refresh, on a directory that has content, without error.
C4_Witness ==
    /\ Returned
    /\ eventFired
    /\ ~lastCall.ioError
    /\ lastCall.items # <<>>

\* C5: no getChildren call rejects, and a call in which an I/O call failed
\* resolves to the empty sequence.
C5_ErrorsDegradeToEmpty ==
    Returned => /\ ~lastCall.rejected
                /\ lastCall.ioError => lastCall.items = <<>>

\* A call on a directory with entries in which an I/O call failed.
C5_Witness ==
    /\ Returned
    /\ lastCall.ioError
    /\ ChildrenOf(fs, lastCall.dir) # {}

\* The step is one of the extension, not of its environment.
ExtensionStep == lastOp' \in {"activate", "getChildren", "refresh"}

\* The project_management folder of the first workspace folder.
TargetFolder ==
    IF HasWorkspace(wsFolders) THEN ProjectManagementPath(wsFolders.list[1]) ELSE <<>>

\* C6 as stated: the only change the extension makes to the filesystem is to
\* create the project_management folder when it is missing.
C6_OnlyTheFolder ==
    [][ExtensionStep =>
         \A p \in Paths :
            \/ fs'[p] = fs[p]
            \/ p = TargetFolder /\ fs[p] = "absent" /\ fs'[p] = "dir"]_vars

\* C6 as amended: the only change the extension makes to the filesystem is
\* to create the project_management folder when it is missing, together with
\* the missing directories above it; it never deletes the folder and creates,
\* changes or removes nothing else.
C6_OnlyTheFolderAndAncestors ==
    [][ExtensionStep =>
         \A p \in Paths :
            \/ fs'[p] = fs[p]
            \/ /\ IsPrefix(p, TargetFolder)
               /\ fs[p] = "absent" /\ fs'[p] = "dir"
               /\ fs[TargetFolder] = "absent" /\ fs'[TargetFolder] = "dir"]_vars

\* activate() has run and the folder is there.
C6_Witness == lastOp = "activate" /\ KindAt(fs, TargetFolder) = "dir"

----------------------------------------------------------------------------
(* Properties of the chat handler and of the overview *)

Range(q) == {q[i] : i \in 1..Len(q)}

\* The stream a handler leaves that wrote exactly these fragments, in order.
FragmentParts(fragments) ==
    [i \in 1..Len(fragments) |-> [tag |-> "fragment", arg |-> fragments[i], n |-> 0]]

\* C7: a request with the sub-command 'overview' writes the summary to the
\* stream and never calls the completion service, whatever the workspace, git
\* and file search give.
C7_OverviewNeverSends ==
    request.command = "overview" =>
        /\ Len(sendLog) = 0
        /\ served = <<>>
        /\ chatPc = "done"
        /\ chatResult = "overview"
        /\ Len(stream) >= 2
        /\ stream[1] = [tag |-> "h1", arg |-> "Project Management Overview", n |-> 0]
        /\ [tag |-> "h2", arg |-> "Next Steps", n |-> 0] \in Range(stream)

\* An overview request has been answered in a workspace whose search failed.
C7_Witness ==
    /\ request.command = "overview"
    /\ chatPc = "done"
    /\ Len(wsFolders.list) > 0
    /\ overviewInput.search.rejected

\* C8: for a request without sub-command whose completion succeeds, the
\* service is called exactly once, with the prompt, every fragment it produced
\* is on the stream exactly once and in order, and the result returned after
\* the last of them carries the empty sub-command.
C8_FragmentsOnceInOrder ==
    (/\ request.command # "overview"
     /\ chatPc \in {"awaitingSend", "streaming", "done"}
     /\ raised = "none") =>
        /\ Len(sendLog) = 1
        /\ sendLog[1] = <<"system", request.prompt>>
        /\ stream = FragmentParts(served)
        /\ chatPc # "done" => chatResult = "none"
        /\ chatPc = "done" =>
              chatResult = IF request.command = "undefined" THEN "" ELSE request.command

\* A request without sub-command has returned after two fragments.
C8_Witness ==
    /\ request.command = "undefined"
    /\ chatPc = "done"
    /\ raised = "none"
    /\ Len(served) >= 2
    /\ served[1] # served[2]

\* C9: when the completion service fails, on the request or part-way, a
\* LanguageModelError puts the apology on the stream and the handler returns
\* its metadata result; any other error is thrown on to the host with no
\* apology written; the service is never called a second time.
C9_ErrorsClassified ==
    /\ Len(sendLog) <= 1
    /\ raised = "LanguageModelError" =>
          /\ chatPc = "done"
          /\ stream = FragmentParts(served) \o <<[tag |-> "apology", arg |-> "", n |-> 0]>>
          /\ chatResult = IF request.command = "undefined" THEN "" ELSE request.command
    /\ raised = "Error" =>
          /\ chatPc = "thrown"
          /\ stream = FragmentParts(served)
          /\ chatResult = "none"
    /\ chatPc = "thrown" => raised = "Error"

\* The service failed with a LanguageModelError after a fragment had arrived.
C9_Witness ==
    /\ raised = "LanguageModelError"
    /\ Len(served) >= 1
    /\ chatPc = "done"

\* There is no workspace folder: workspaceFolders is undefined or empty.
ZeroFolders == ~wsFolders.defined \/ Len(wsFolders.list) = 0

\* The parts of an output that open a section with the given title.
HasSection(parts, title) == \E i \in 1..Len(parts) : parts[i].arg = title

\* C10: with zero workspace folders neither the webview html nor the chat
\* summary has a "Workspace Folders" section, no file search is made and no
\* "Project Files" section is written.
C10_NoFolderSections ==
    ZeroFolders =>
        /\ searches = 0
        /\ \A out \in {stream, html} :
              /\ ~HasSection(out, "Workspace Folders")
              /\ ~HasSection(out, "Project Files")
              /\ \A i \in 1..Len(out) : out[i].tag \notin {"folder", "link", "reference"}

\* The overview panel was rendered for an empty list of workspace folders.
C10_Witness ==
    /\ wsFolders.defined
    /\ Len(wsFolders.list) = 0
    /\ html # <<>>
    /\ HasSection(html, "Next Steps")

\* An overview has been rendered in a workspace whose file search succeeded.
FilesListed ==
    /\ searches > 0
    /\ ~overviewInput.search.rejected

\* The rendered overview: the panel's html, or the chat summary.
Rendered == IF html # <<>> THEN html ELSE stream

\* The search results one pass considers: at most the first 100.
Considered ==
    LET m == overviewInput.search.matching
    IN  SubSeq(m, 1, IF Len(m) <= 100 THEN Len(m) ELSE 100)

\* The considered .ts files whose path holds a hinted substring.
Hinted == SelectSeq(Considered, LAMBDA f : f \in TsFileNames /\ f \in MainFileNames)

\* The .ts files an output lists, in order.
ListedTs(out) ==
    LET links == SelectSeq(out, LAMBDA p : p.tag = "link" /\ p.arg \in TsFileNames)
    IN  [i \in 1..Len(links) |-> links[i].arg]

\* The output carries the "... and N more" note.
HasMoreNote(out) == \E i \in 1..Len(out) : out[i].tag = "more"

\* C11: in one overview pass over at most 100 search results the TypeScript
\* bucket lists the first 5 hinted files, and no more, and the "... and N
\* more" note is written exactly when the hinted files are more than 5.
C11_MoreNoteIffTruncated ==
    FilesListed =>
        /\ Len(ListedTs(Rendered)) <= 5
        /\ ListedTs(Rendered) = SubSeq(Hinted, 1, IF Len(Hinted) <= 5 THEN Len(Hinted) ELSE 5)
        /\ HasMoreNote(Rendered) <=> Len(Hinted) > 5

\* The fragments on a stream, in order.
FragmentsOn(out) == SelectSeq(out, LAMBDA p : p.tag = "fragment")

\* C12: once the host has cancelled the request while the handler is
\* streaming, the handler writes no fragment that arrives afterwards: the
\* fragments on the stream stay the ones written before the cancellation.
C12_NoFragmentAfterCancel ==
    [][(cancelled /\ chatPc = "streaming") =>
          FragmentsOn(stream') = FragmentsOn(stream)]_vars

\* The overview pass met a failure of the version-control integration:
\* getAPI threw, or the read of a repository's root or state did.
GitFailed ==
    \/ overviewInput.git.status = "throws"
    \/ \E i \in 1..Len(overviewInput.git.repos) :
          overviewInput.git.repos[i] \in {"rootThrows", "stateThrows"}

\* C13: when the query of the version-control integration fails at any
\* point, the failure is swallowed, the later sections are rendered, and the
\* output has no "Git Repositories" section: no header, no repository entry.
C13_GitFailureOmitsSection ==
    GitFailed =>
        /\ chatPc # "thrown"
        /\ HasSection(Rendered, "Next Steps")
        /\ ~HasSection(Rendered, "Git Repositories")
        /\ \A i \in 1..Len(Rendered) :
              Rendered[i].tag \notin {"Repository", "Current Branch"}

----------------------------------------------------------------------------
(* Properties of the command that copies the external file *)

\* The messages of a kind that invocation i has shown.
Shown(i, kind) ==
    Cardinality({k \in 1..Len(notifications) :
                    notifications[k].call = i /\ notifications[k].kind = kind})

\* C14: an invocation's clipboard write completes only when the file was
\* there and was read; an invocation that met a missing file, a failed read
\* or a failed clipboard write has shown exactly one error message and no
\* success message, and has returned normally; no invocation ever rejects;
\* the success message is shown only after the clipboard write has completed.
C14_CopyOrOneError ==
    /\ clipboard # "earlier" =>
          \E i \in 1..Len(calls) : calls[i].wrote /\ clipboard = calls[i].content
    /\ \A i \in 1..Len(calls) :
          /\ calls[i].settled # "rejected"
          /\ calls[i].wrote =>
                /\ calls[i].cause = "none"
                /\ calls[i].content \in {"text1", "text2"}
          /\ calls[i].cause # "none" =>
                /\ calls[i].pc = "returned"
                /\ calls[i].settled = "resolved"
                /\ ~calls[i].wrote
                /\ Shown(i, "error") = 1
                /\ Shown(i, "info") = 0
          /\ calls[i].cause = "none" =>
                /\ Shown(i, "error") = 0
                /\ Shown(i, "info") = IF calls[i].pc = "returned" THEN 1 ELSE 0
          /\ Shown(i, "info") > 0 => calls[i].wrote

\* One invocation has copied the file and shown the success message, and
\* another has met a failing clipboard write.
C14_Witness ==
    \E i, j \in 1..Len(calls) :
        /\ calls[i].pc = "returned" /\ calls[i].wrote /\ Shown(i, "info") = 1
        /\ calls[j].cause = "clipboardFailed" /\ Shown(j, "error") = 1

====
